---- MODULE Spec2Model ----
(***************************************************************************)
(* Model of the Nap-Works REST backend: the auth routes (signup, login),   *)
(* the token verifier middleware, and the posts routes (create, list).     *)
(* Strings that the code inspects character by character (emails,          *)
(* passwords, names, file extensions, query numbers) are sequences of      *)
(* one-character strings.  The stores are the two collections the routes   *)
(* read and write and the upload directory.                                *)
(***************************************************************************)
EXTENDS Integers, Sequences, FiniteSets, TLC

VARIABLES users, signedUp, inflight, posts, files, now, listing, resp

vars == <<users, signedUp, inflight, posts, files, now, listing, resp>>

(***************************************************************************)
(* Bounds of the model.                                                    *)
(***************************************************************************)
MaxInFlight == 2
MaxPosts == 2
MaxTied == 3
MaxCreated == 2
BigSize == 24
MaxFiles == 2
MaxTime == 2

(***************************************************************************)
(* Character helpers.                                                      *)
(***************************************************************************)
Letters == {"a", "b", "c", "n", "p", "t", "x", "A", "B", "G", "N", "P", "X"}

Digits == {"0", "1", "2", "3", "4", "5", "6", "7", "8", "9"}

Lower(c) ==
  CASE c = "A" -> "a"
    [] c = "X" -> "x"
    [] c = "P" -> "p"
    [] c = "B" -> "b"
    [] c = "N" -> "n"
    [] c = "G" -> "g"
    [] OTHER -> c

toLowerCase(s) == [i \in 1..Len(s) |-> Lower(s[i])]

RECURSIVE ltrim(_)
ltrim(s) == IF s # <<>> /\ Head(s) = " " THEN ltrim(Tail(s)) ELSE s

RECURSIVE rtrim(_)
rtrim(s) ==
  IF s # <<>> /\ s[Len(s)] = " " THEN rtrim(SubSeq(s, 1, Len(s) - 1)) ELSE s

trim(s) == rtrim(ltrim(s))

notEmpty(s) == s # <<>>

Count(s, c) == Cardinality({i \in 1..Len(s) : s[i] = c})

IndexOf(s, c) == IF Count(s, c) = 0 THEN 0 ELSE CHOOSE i \in 1..Len(s) : s[i] = c /\ \A j \in 1..(i - 1) : s[j] # c

(***************************************************************************)
(* express-validator checks and sanitizers used by the auth routes.        *)
(***************************************************************************)
isEmail(s) ==
  /\ Count(s, "@") = 1
  /\ Count(s, " ") = 0
  /\ LET at == IndexOf(s, "@")
         domain == SubSeq(s, at + 1, Len(s))
     IN /\ at > 1
        /\ Count(domain, ".") >= 1
        /\ domain[1] # "."
        /\ domain[Len(domain)] # "."

normalizeEmailNoLowercase(s) == s

normalizeEmail(s) == toLowerCase(s)

MinPasswordLen == 6

isLengthMin(s) == Len(s) >= MinPasswordLen

hasLetterAndDigit(s) ==
  /\ \E i \in 1..Len(s) : s[i] \in Letters
  /\ \E i \in 1..Len(s) : s[i] \in Digits

(***************************************************************************)
(* bcrypt and jsonwebtoken.                                                *)
(***************************************************************************)
bcryptHash(password) == [digest |-> password]

bcryptCompare(password, hash) == hash.digest = password

\* A token carries the user id and the signature of whoever made it; expired
\* says whether its hour has passed when it is presented.
jwtSign(id) == [id |-> id, sig |-> "server", expired |-> FALSE]

NoToken == [id |-> 0, sig |-> "none", expired |-> FALSE]

jwtVerify(token) == token.sig = "server" /\ ~token.expired

(***************************************************************************)
(* Request inputs.                                                         *)
(***************************************************************************)
EmailA == <<"a", "@", "x", ".", "c">>

EmailAUpper == <<"A", "@", "X", ".", "c">>

EmailASpaces == <<" ", "a", "@", "x", ".", "c", " ">>

EmailB == <<"b", "@", "x", ".", "c">>

NotAnEmail == <<"a", "x">>

Password1 == <<"a", "b", "c", "1", "2", "3">>

Password2 == <<"x", "x", "x", "7", "7", "7">>

ShortPassword == <<"a", "1">>

NoDigitPassword == <<"a", "a", "a", "a", "a", "a">>

PasswordInputs == {Password1, Password2, ShortPassword, NoDigitPassword, <<>>}

SignupRequests ==
  [name : {<<" ", "n">>}, email : {EmailA, EmailAUpper, EmailASpaces, EmailB},
   password : {Password1, Password2}]
  \cup
  { [name |-> <<" ">>, email |-> EmailA, password |-> Password1],
    [name |-> <<"n">>, email |-> NotAnEmail, password |-> Password1],
    [name |-> <<"n">>, email |-> EmailAUpper, password |-> ShortPassword],
    [name |-> <<"n">>, email |-> EmailA, password |-> NoDigitPassword],
    [name |-> <<"n">>, email |-> EmailASpaces, password |-> <<>>] }

LoginRequests ==
  [email : {EmailA, EmailAUpper, EmailASpaces, EmailB}, password : {Password1, Password2}]
  \cup
  { [email |-> EmailA, password |-> NoDigitPassword],
    [email |-> NotAnEmail, password |-> Password1],
    [email |-> EmailA, password |-> <<>>] }

Slots == 1..MaxInFlight

Idle == [state |-> "idle"]

\* The value of resp after a step that sends no response.
NoResponse == [op |-> "none"]

NoUser == [id |-> 0, name |-> <<>>, email |-> <<>>]

(***************************************************************************)
(* The credential store: the users collection.                             *)
(***************************************************************************)
findOne(email) ==
  IF \E i \in 1..Len(users) : users[i].email = email
  THEN {users[CHOOSE i \in 1..Len(users) :
                 /\ users[i].email = email
                 /\ \A j \in 1..(i - 1) : users[j].email # email]}
  ELSE {}

\* The unique index on email: a save whose email is already stored is rejected.
uniqueIndexAccepts(email) == \A i \in 1..Len(users) : users[i].email # email

newUser(name, email, hashedPassword) ==
  [id |-> Len(users) + 1, name |-> name, email |-> email, password |-> hashedPassword]

(***************************************************************************)
(* Signup: validation chain, sanitized body and responses.                 *)
(***************************************************************************)
signupValidation(req) ==
  /\ notEmpty(trim(req.name))
  /\ isEmail(trim(req.email))
  /\ isLengthMin(req.password)
  /\ hasLetterAndDigit(req.password)

signupBodyNotNormalized(req) ==
  [name |-> trim(req.name), email |-> trim(req.email), password |-> req.password]

signupBody(req) ==
  [name |-> trim(req.name), email |-> normalizeEmail(trim(req.email)),
   password |-> req.password]

ValidationFailed(op, req) ==
  [op |-> op, req |-> req, branch |-> "validation", status |-> 400,
   message |-> "Validation failed", error |-> "errors",
   token |-> NoToken, user |-> NoUser]

EmailExists(req) ==
  [op |-> "signup", req |-> req, branch |-> "exists", status |-> 400,
   message |-> "Email already exists",
   error |-> "User already registered with this email",
   token |-> NoToken, user |-> NoUser]

SignupCreated(req, user) ==
  [op |-> "signup", req |-> req, branch |-> "created", status |-> 201,
   message |-> "User registered successfully", error |-> "",
   token |-> jwtSign(user.id),
   user |-> [id |-> user.id, name |-> user.name, email |-> user.email]]

\* router.use error handler of the auth routes.
AuthServerError(op, req) ==
  [op |-> op, req |-> req, branch |-> "error", status |-> 500,
   message |-> "Internal server error", error |-> "",
   token |-> NoToken, user |-> NoUser]

\* Signup up to the await of User.findOne and the decision taken on its result.
SignupCheck(slot, req) ==
  /\ inflight[slot] = Idle
  /\ \A s \in 1..(slot - 1) : inflight[s] # Idle
  /\ IF ~signupValidation(req)
     THEN /\ resp' = ValidationFailed("signup", req)
          /\ UNCHANGED inflight
     ELSE IF findOne(signupBody(req).email) # {}
     THEN /\ resp' = EmailExists(req)
          /\ UNCHANGED inflight
     ELSE /\ inflight' = [inflight EXCEPT ![slot] =
                            [state |-> "saving", body |-> signupBody(req)]]
          /\ resp' = NoResponse
  /\ UNCHANGED <<users, signedUp, posts, files, now, listing>>

\* Signup from bcrypt.hash through user.save() to the response.
SignupSave(slot) ==
  /\ inflight[slot] # Idle
  /\ LET body == inflight[slot].body
         user == newUser(body.name, body.email, bcryptHash(body.password))
     IN IF uniqueIndexAccepts(body.email)
        THEN /\ users' = Append(users, user)
             /\ signedUp' = signedUp \cup
                  {[id |-> user.id, email |-> body.email, password |-> body.password]}
             /\ resp' = SignupCreated(body, user)
        ELSE /\ resp' = AuthServerError("signup", body)
             /\ UNCHANGED <<users, signedUp>>
  /\ inflight' = [inflight EXCEPT ![slot] = Idle]
  /\ UNCHANGED <<posts, files, now, listing>>

(***************************************************************************)
(* Login.                                                                  *)
(***************************************************************************)
loginValidation(req) ==
  /\ isEmail(trim(req.email))
  /\ notEmpty(req.password)

loginEmailNotNormalized(req) == trim(req.email)

loginEmail(req) == normalizeEmail(trim(req.email))

LoginUserNotFoundRevealing(req) ==
  [op |-> "login", req |-> req, branch |-> "nouser", status |-> 404,
   message |-> "User not found", error |-> "No user with this email",
   token |-> NoToken, user |-> NoUser]

LoginUserNotFound(req) ==
  [op |-> "login", req |-> req, branch |-> "nouser", status |-> 401,
   message |-> "Authentication failed", error |-> "Invalid email or password",
   token |-> NoToken, user |-> NoUser]

LoginInvalidPassword(req) ==
  [op |-> "login", req |-> req, branch |-> "badpassword", status |-> 401,
   message |-> "Authentication failed", error |-> "Invalid email or password",
   token |-> NoToken, user |-> NoUser]

LoginSuccessful(req, user) ==
  [op |-> "login", req |-> req, branch |-> "ok", status |-> 200,
   message |-> "Login successful", error |-> "",
   token |-> jwtSign(user.id),
   user |-> [id |-> user.id, name |-> user.name, email |-> loginEmail(req)]]

Login(req) ==
  /\ resp' =
       IF ~loginValidation(req) THEN ValidationFailed("login", req)
       ELSE IF findOne(loginEmail(req)) = {} THEN LoginUserNotFound(req)
       ELSE LET user == CHOOSE u \in findOne(loginEmail(req)) : TRUE
            IN IF ~bcryptCompare(req.password, user.password)
               THEN LoginInvalidPassword(req)
               ELSE LoginSuccessful(req, user)
  /\ UNCHANGED <<users, signedUp, inflight, posts, files, now, listing>>

(***************************************************************************)
(* Requests to /api/signup and /api/login with a method other than POST:   *)
(* the app's cors middleware, then the routes of the auth router in the    *)
(* order they are registered, then the framework's final handler.          *)
(***************************************************************************)
OtherMethods == {"GET", "HEAD", "PUT", "PATCH", "DELETE", "OPTIONS"}

AuthPaths == {"/signup", "/login"}

RouteResponse(req, branch, status, message) ==
  [op |-> "route", req |-> req, branch |-> branch, status |-> status,
   message |-> message]

\* cors() answers a preflight itself.
corsEndsRequest(method) == method = "OPTIONS"

\* router.post(path, ...) takes POST requests only.
routerPostMatches(method) == method = "POST"

\* router.get(path, ...) takes GET requests, and HEAD requests in their place.
routerGetMatches(method) == method \in {"GET", "HEAD"}

requirePost(method) == IF method # "POST" THEN "Method Not Allowed" ELSE "next"

routeAuth(req) ==
  IF corsEndsRequest(req.method) THEN RouteResponse(req, "cors", 204, "")
  ELSE IF routerPostMatches(req.method)
  THEN IF requirePost(req.method) # "next"
       THEN RouteResponse(req, "requirePost", 405, requirePost(req.method))
       ELSE RouteResponse(req, "handler", 0, "")
  ELSE IF routerGetMatches(req.method)
  THEN RouteResponse(req, "get", 405, "Method Not Allowed")
  ELSE RouteResponse(req, "finalhandler", 404, "Cannot " \o req.method \o " /api" \o req.path)

\* A request to an auth path with a method other than POST.
OtherMethod(req) ==
  /\ resp' = routeAuth(req)
  /\ UNCHANGED <<users, signedUp, inflight, posts, files, now, listing>>

(***************************************************************************)
(* Token verifier middleware.                                              *)
(***************************************************************************)
NoHeader == [present |-> FALSE, token |-> NoToken]

\* The header value "Bearer " followed by the token text; an empty token text
\* is NoToken.
Bearer(token) == [present |-> TRUE, token |-> token]

\* req.header('Authorization')?.replace('Bearer ', '') is falsy.
tokenMissing(header) == ~header.present \/ header.token = NoToken

authSkipsVerify(header) ==
  IF tokenMissing(header) THEN "Authentication required" ELSE "next"

auth(header) ==
  IF tokenMissing(header) THEN "Authentication required"
  ELSE IF ~jwtVerify(header.token) THEN "Invalid token"
  ELSE "next"

\* The user id as the string carried by the token payload and by form fields.
idString(id) == <<id>>

(***************************************************************************)
(* Upload handler: multer with the disk storage, file filter and limits.   *)
(***************************************************************************)
fileSizeLimit == 5 * 1024 * 1024

Contains(s, pat) ==
  \E i \in 0..(Len(s) - Len(pat)) : SubSeq(s, i + 1, i + Len(pat)) = pat

filetypes == {<<"j", "p", "e", "g">>, <<"j", "p", "g">>, <<"p", "n", "g">>}

filetypesTest(s) == \E pat \in filetypes : Contains(s, pat)

fileFilter(image) ==
  /\ filetypesTest(toLowerCase(image.ext))
  /\ filetypesTest(image.mime)

NoImage == [present |-> FALSE, ext |-> <<>>, mime |-> <<>>, size |-> 0]

Image(ext, mime, size) == [present |-> TRUE, ext |-> ext, mime |-> mime, size |-> size]

\* Outcome of upload.single('image'): "next" with or without a stored file,
\* a plain Error from the file filter, or a MulterError from the size limit.
upload(image) ==
  IF ~image.present THEN "none"
  ELSE IF ~fileFilter(image) THEN "Error"
  ELSE IF image.size > fileSizeLimit THEN "MulterError"
  ELSE "stored"

filename == Cardinality(files) + 1

diskStorageSkipsWrite(stored, name) == files

\* multer.diskStorage: an accepted image is on disk, under its fresh name,
\* when upload.single hands the request on; nothing removes a stored file.
diskStorage(stored, name) == IF stored THEN files \cup {name} ELSE files

(***************************************************************************)
(* Create post: validation chain, ownership check and responses.           *)
(***************************************************************************)
NoTags == [kind |-> "absent", items |-> <<>>]

TagsArray(items) == [kind |-> "array", items |-> items]

TagsString(item) == [kind |-> "string", items |-> <<item>>]

postValidation(req) ==
  /\ notEmpty(req.userId)
  /\ notEmpty(trim(req.postName))
  /\ notEmpty(trim(req.description))
  /\ req.tags.kind \in {"absent", "array"}

ownsPostAlways(user, userId) == TRUE

ownsPost(user, userId) == idString(user.id) = userId

PostResponse(req, branch, status, message, error) ==
  [op |-> "createPost", req |-> req, branch |-> branch, status |-> status,
   message |-> message, error |-> error]

AuthRejected(req) == PostResponse(req, "auth", 401, "", auth(req.header))

\* router.use error handler of the posts routes.
UploadMulterError(req) ==
  PostResponse(req, "multer", 400, "File upload error", "File too large")

PostServerError(req) ==
  PostResponse(req, "error", 500, "Internal server error", "")

PostValidationFailed(req) ==
  PostResponse(req, "validation", 400, "Validation failed", "errors")

NoAuthenticatedUser(req) ==
  PostResponse(req, "nouser", 401, "Authentication failed",
               "No authenticated user found")

PostUnauthorized(req) ==
  PostResponse(req, "ownership", 403, "Unauthorized",
               "You can only create posts for yourself")

PostCreated(req) ==
  PostResponse(req, "created", 201, "Post created successfully", "")

\* post.save() rejects: the async handler passes the error to the router's
\* error handler.
PostSaveFailed(req) ==
  PostResponse(req, "save", 500, "Internal server error", "")

\* req.file ? `/uploads/${req.file.filename}` : null
imagePathOf(stored, name) == IF stored THEN name ELSE 0

newPost(req, imagePath) ==
  [id |-> Len(posts) + 1,
   userId |-> req.userId,
   postName |-> trim(req.postName),
   description |-> trim(req.description),
   uploadTime |-> now,
   tags |-> IF req.tags.kind = "array" THEN req.tags.items ELSE <<>>,
   imagePath |-> imagePath]

\* POST /posts: auth, upload.single('image'), postValidation, handler.
CreatePost(req) ==
  /\ LET stored == auth(req.header) = "next" /\ upload(req.image) = "stored"
         imagePath == imagePathOf(stored, filename)
     IN /\ files' = diskStorage(stored, filename)
        /\ IF auth(req.header) # "next"
           THEN resp' = AuthRejected(req) /\ UNCHANGED posts
           ELSE IF upload(req.image) = "Error"
           THEN resp' = PostServerError(req) /\ UNCHANGED posts
           ELSE IF upload(req.image) = "MulterError"
           THEN resp' = UploadMulterError(req) /\ UNCHANGED posts
           ELSE IF ~postValidation(req)
           THEN resp' = PostValidationFailed(req) /\ UNCHANGED posts
           ELSE IF req.header.token.id = 0
           THEN resp' = NoAuthenticatedUser(req) /\ UNCHANGED posts
           ELSE IF ~ownsPost(req.header.token, req.userId)
           THEN resp' = PostUnauthorized(req) /\ UNCHANGED posts
           ELSE \/ /\ posts' = Append(posts, newPost(req, imagePath))
                   /\ resp' = PostCreated(req)
                \/ /\ resp' = PostSaveFailed(req)
                   /\ UNCHANGED posts
  /\ UNCHANGED <<users, signedUp, inflight, now, listing>>

Tick ==
  /\ now < MaxTime
  /\ now' = now + 1
  /\ resp' = NoResponse
  /\ UNCHANGED <<users, signedUp, inflight, posts, files, listing>>

(***************************************************************************)
(* List posts: query validation, filter construction, find and count.      *)
(***************************************************************************)
Absent == [present |-> FALSE, value |-> <<>>]

Param(v) == [present |-> TRUE, value |-> v]

DigitValue(c) ==
  CASE c = "0" -> 0 [] c = "1" -> 1 [] c = "2" -> 2 [] c = "3" -> 3
    [] c = "4" -> 4 [] c = "5" -> 5 [] c = "6" -> 6 [] c = "7" -> 7
    [] c = "8" -> 8 [] c = "9" -> 9

RECURSIVE toNumber(_)
toNumber(s) ==
  IF s = <<>> THEN 0
  ELSE 10 * toNumber(SubSeq(s, 1, Len(s) - 1)) + DigitValue(s[Len(s)])

isIntMin(s, min) ==
  /\ s # <<>>
  /\ \A i \in 1..Len(s) : s[i] \in Digits
  /\ toNumber(s) >= min

isIntRange(s, min, max) == isIntMin(s, min) /\ toNumber(s) <= max

isDigits(s) == s # <<>> /\ \A i \in 1..Len(s) : s[i] \in Digits

\* The date forms YYYY, YYYY-MM and YYYY-MM-DD of the pattern of isISO8601()
\* called without { strict: true }: the month is 01..12 and the day 01..31,
\* whatever the month.
yearOf(s) == toNumber(SubSeq(s, 1, 4))

monthOf(s) == IF Len(s) >= 7 THEN toNumber(SubSeq(s, 6, 7)) ELSE 1

dayOf(s) == IF Len(s) >= 10 THEN toNumber(SubSeq(s, 9, 10)) ELSE 1

isISO8601(s) ==
  /\ Len(s) \in {4, 7, 10}
  /\ isDigits(SubSeq(s, 1, 4))
  /\ Len(s) >= 7 =>
       s[5] = "-" /\ isDigits(SubSeq(s, 6, 7)) /\ monthOf(s) \in 1..12
  /\ Len(s) >= 10 =>
       s[8] = "-" /\ isDigits(SubSeq(s, 9, 10)) /\ dayOf(s) \in 1..31

isLeapYear(y) == (y % 4 = 0 /\ y % 100 # 0) \/ y % 400 = 0

daysInMonth(y, m) ==
  IF m = 2 THEN (IF isLeapYear(y) THEN 29 ELSE 28)
  ELSE IF m \in {4, 6, 9, 11} THEN 30 ELSE 31

RECURSIVE daysBeforeMonth(_, _)
daysBeforeMonth(y, m) ==
  IF m = 1 THEN 0 ELSE daysBeforeMonth(y, m - 1) + daysInMonth(y, m - 1)

leapYearsBefore(y) == ((y - 1) \div 4) - ((y - 1) \div 100) + ((y - 1) \div 400)

\* new Date(text) of a text isISO8601 accepts, as the day it denotes; the clock
\* counts days and its day 1 is 2024-01-01.  A day past the end of its month
\* runs on into the next month.
newDate(s) ==
  LET y == yearOf(s)
  IN 365 * (y - 2024) + leapYearsBefore(y) - leapYearsBefore(2024)
       + daysBeforeMonth(y, monthOf(s)) + dayOf(s)

searchValidation(q) ==
  /\ q.startDate.present => isISO8601(q.startDate.value)
  /\ q.endDate.present => isISO8601(q.endDate.value)
  /\ q.page.present => isIntMin(q.page.value, 1)
  /\ q.limit.present => isIntRange(q.limit.value, 1, 100)

\* tags.split(',').map(tag => tag.trim())
RECURSIVE split(_)
split(s) ==
  IF Count(s, ",") = 0 THEN <<s>>
  ELSE LET k == IndexOf(s, ",")
       IN <<SubSeq(s, 1, k - 1)>> \o split(SubSeq(s, k + 1, Len(s)))

tagsArray(s) == [i \in 1..Len(split(s)) |-> trim(split(s)[i])]

\* { $regex: searchText, $options: 'i' } for a pattern of plain characters.
regexTest(text, pattern) == Contains(toLowerCase(text), toLowerCase(pattern))

\* escape(): the characters &, < and > are replaced by their HTML entities.
RECURSIVE escape(_)
escape(s) ==
  IF s = <<>> THEN <<>>
  ELSE (CASE Head(s) = "&" -> <<"&", "a", "m", "p", ";">>
          [] Head(s) = "<" -> <<"&", "l", "t", ";">>
          [] Head(s) = ">" -> <<"&", "g", "t", ";">>
          [] OTHER -> <<Head(s)>>) \o escape(Tail(s))

searchTextOf(q) ==
  IF q.searchText.present THEN escape(trim(q.searchText.value)) ELSE <<>>

matches(post, q) ==
  /\ searchTextOf(q) # <<>> =>
       \/ regexTest(post.postName, searchTextOf(q))
       \/ regexTest(post.description, searchTextOf(q))
  /\ (q.startDate.present /\ q.startDate.value # <<>>) =>
       post.uploadTime >= newDate(q.startDate.value)
  /\ (q.endDate.present /\ q.endDate.value # <<>>) =>
       post.uploadTime <= newDate(q.endDate.value)
  /\ (q.tags.present /\ trim(q.tags.value) # <<>>) =>
       \E i \in 1..Len(post.tags), j \in 1..Len(tagsArray(trim(q.tags.value))) :
         post.tags[i] = tagsArray(trim(q.tags.value))[j]

invalidDateRange(q) ==
  /\ q.startDate.present /\ q.startDate.value # <<>>
  /\ q.endDate.present /\ q.endDate.value # <<>>
  /\ newDate(q.startDate.value) > newDate(q.endDate.value)

pageOf(q) == IF q.page.present THEN toNumber(q.page.value) ELSE 1

limitOf(q) == IF q.limit.present THEN toNumber(q.limit.value) ELSE 10

skipOffByOne(q) == pageOf(q) * limitOf(q)

skip(q) == (pageOf(q) - 1) * limitOf(q)

ceil(total, limit) == (total + limit - 1) \div limit

\* Post.find(query): the ids of the matching posts.
find(q) == {i \in 1..Len(posts) : matches(posts[i], q)}

countDocuments(q) == Cardinality(find(q))

\* sort({ uploadTime: -1 }): every order of the ids that is descending in
\* uploadTime; posts with equal uploadTime come in any order.
RECURSIVE permutations(_)
permutations(S) ==
  IF S = {} THEN {<<>>}
  ELSE UNION {{<<x>> \o rest : rest \in permutations(S \ {x})} : x \in S}

RECURSIVE sortDescending(_)
sortDescending(S) ==
  IF S = {} THEN {<<>>}
  ELSE LET newest == CHOOSE t \in {posts[i].uploadTime : i \in S} :
                       \A i \in S : posts[i].uploadTime <= t
           group == {i \in S : posts[i].uploadTime = newest}
       IN {first \o rest : first \in permutations(group),
                           rest \in sortDescending(S \ group)}

\* .skip(skip).limit(parseInt(limit)) of a sorted result.
slice(sorted, offset, limit) ==
  SubSeq(sorted, offset + 1, IF offset + limit < Len(sorted) THEN offset + limit ELSE Len(sorted))

InvalidQuery(q) ==
  [op |-> "listPosts", req |-> q, branch |-> "validation", status |-> 400,
   message |-> "Invalid query parameters"]

InvalidDateRange(q) ==
  [op |-> "listPosts", req |-> q, branch |-> "daterange", status |-> 400,
   message |-> "Invalid date range"]

PostsRetrieved(q, found, total, foundAt) ==
  [op |-> "listPosts", req |-> q, branch |-> "ok", status |-> 200,
   message |-> "Posts retrieved successfully", posts |-> found, total |-> total,
   page |-> pageOf(q), pages |-> ceil(total, limitOf(q)), limit |-> limitOf(q),
   foundAt |-> foundAt]

\* GET /posts up to the await of Post.find(...).
ListFind(q) ==
  /\ listing = Idle
  /\ IF ~searchValidation(q)
     THEN resp' = InvalidQuery(q) /\ UNCHANGED listing
     ELSE IF invalidDateRange(q)
     THEN resp' = InvalidDateRange(q) /\ UNCHANGED listing
     ELSE /\ \E sorted \in sortDescending(find(q)) :
               listing' = [state |-> "counting", req |-> q,
                           posts |-> slice(sorted, skip(q), limitOf(q)),
                           foundAt |-> Len(posts)]
          /\ resp' = NoResponse
  /\ UNCHANGED <<users, signedUp, inflight, posts, files, now>>

\* GET /posts from the await of Post.countDocuments(query) to the response.
ListCount ==
  /\ listing # Idle
  /\ resp' = PostsRetrieved(listing.req, listing.posts, countDocuments(listing.req),
                            listing.foundAt)
  /\ listing' = Idle
  /\ UNCHANGED <<users, signedUp, inflight, posts, files, now>>

(***************************************************************************)
(* The state after construction and the next-state relation.               *)
(***************************************************************************)
Init ==
  /\ users = <<>>
  /\ signedUp = {}
  /\ inflight = [s \in Slots |-> Idle]
  /\ posts = <<>>
  /\ files = {}
  /\ now = 1
  /\ listing = Idle
  /\ resp = NoResponse

Next ==
  \/ \E slot \in Slots, req \in SignupRequests : SignupCheck(slot, req)
  \/ \E slot \in Slots : SignupSave(slot)
  \/ \E req \in LoginRequests : Login(req)
  \/ \E m \in OtherMethods, path \in AuthPaths : OtherMethod([method |-> m, path |-> path])

Spec == Init /\ [][Next]_vars

(***************************************************************************)
(* The posts routes, started with two users registered.                    *)
(***************************************************************************)
RegisteredUsers ==
  << [id |-> 1, name |-> <<"n">>, email |-> EmailA, password |-> bcryptHash(Password1)],
     [id |-> 2, name |-> <<"n">>, email |-> EmailB, password |-> bcryptHash(Password2)] >>

RegisteredSignups ==
  { [id |-> 1, email |-> EmailA, password |-> Password1],
    [id |-> 2, email |-> EmailB, password |-> Password2] }

InitPosts ==
  /\ users = RegisteredUsers
  /\ signedUp = RegisteredSignups
  /\ inflight = [s \in Slots |-> Idle]
  /\ posts = <<>>
  /\ files = {}
  /\ now = 1
  /\ listing = Idle
  /\ resp = NoResponse

HeaderInputs ==
  { NoHeader,
    Bearer(NoToken),
    Bearer(jwtSign(1)),
    Bearer([id |-> 1, sig |-> "server", expired |-> TRUE]),
    Bearer([id |-> 2, sig |-> "forged", expired |-> FALSE]) }

UserIdInputs == {<<>>, idString(1), idString(2)}

ImageInputs ==
  { NoImage,
    Image(<<".", "p", "n", "g">>, <<"p", "n", "g">>, fileSizeLimit),
    Image(<<".", "p", "n", "g">>, <<"p", "n", "g">>, fileSizeLimit + 1),
    Image(<<".", "P", "N", "G">>, <<"p", "n", "g">>, 1),
    Image(<<".", "g", "i", "f">>, <<"g", "i", "f">>, 1),
    Image(<<".", "p", "n", "g">>, <<"g", "i", "f">>, 1) }

CreateRequests ==
  [header : HeaderInputs, userId : UserIdInputs, postName : {<<" ">>, <<"p">>},
   description : {<<"x">>}, tags : {NoTags, TagsString("t")}, image : ImageInputs]

CreateNext ==
  \E req \in CreateRequests :
    /\ Len(posts) < MaxCreated
    /\ (req.image.present => Cardinality(files) < MaxFiles)
    /\ CreatePost(req)

CreateSpec == InitPosts /\ [][CreateNext]_vars

(***************************************************************************)
(* The feed: posts created and listed, over an empty or a filled store.    *)
(***************************************************************************)
BigStore ==
  [i \in 1..BigSize |->
     [id |-> i, userId |-> idString(1), postName |-> <<"p">>,
      description |-> <<"x">>, uploadTime |-> i - BigSize,
      tags |-> <<<<"t">>>>, imagePath |-> 0]]

InitFeed ==
  /\ users = RegisteredUsers
  /\ signedUp = RegisteredSignups
  /\ inflight = [s \in Slots |-> Idle]
  /\ posts \in {<<>>, BigStore}
  /\ files = {}
  /\ now = 1
  /\ listing = Idle
  /\ resp = NoResponse

FeedRequests ==
  { [header |-> Bearer(jwtSign(1)), userId |-> idString(1), postName |-> <<"p">>,
     description |-> <<"x">>, tags |-> TagsArray(<<<<"t">>>>), image |-> NoImage],
    [header |-> Bearer(jwtSign(1)), userId |-> idString(1), postName |-> <<"b">>,
     description |-> <<"P">>, tags |-> TagsArray(<<<<"n">>>>), image |-> NoImage] }

NoFilter ==
  [searchText |-> Absent, tags |-> Absent, startDate |-> Absent, endDate |-> Absent]

Date(y, m, d) == y \o <<"-">> \o m \o <<"-">> \o d

Jan1 == Date(<<"2", "0", "2", "4">>, <<"0", "1">>, <<"0", "1">>)

Jan2 == Date(<<"2", "0", "2", "4">>, <<"0", "1">>, <<"0", "2">>)

Feb30 == Date(<<"2", "0", "2", "4">>, <<"0", "2">>, <<"3", "0">>)

Month13 == Date(<<"2", "0", "2", "4">>, <<"1", "3">>, <<"0", "1">>)

Between(startDate, endDate) ==
  [searchText |-> Absent, tags |-> Absent, startDate |-> startDate,
   endDate |-> endDate]

Filters ==
  { [searchText |-> Param(<<" ", "B">>), tags |-> Absent, startDate |-> Absent,
     endDate |-> Absent],
    [searchText |-> Absent, tags |-> Param(<<"t", ",", " ", "c">>),
     startDate |-> Absent, endDate |-> Absent],
    Between(Param(Jan2), Param(Jan2)) }

WithPaging(f, page, limit) ==
  [searchText |-> f.searchText, tags |-> f.tags, startDate |-> f.startDate,
   endDate |-> f.endDate, page |-> page, limit |-> limit]

ListQueries ==
  {WithPaging(NoFilter, page, limit) :
     page \in {Absent, Param(<<"2">>), Param(<<"3">>)},
     limit \in {Absent, Param(<<"1">>), Param(<<"2">>)}}
  \cup
  {WithPaging(f, page, Param(<<"1">>)) : f \in Filters, page \in {Absent, Param(<<"2">>)}}
  \cup
  { WithPaging(NoFilter, Param(<<"0">>), Absent),
    WithPaging(NoFilter, Param(<<"1", ".", "5">>), Absent),
    WithPaging(NoFilter, Absent, Param(<<"1", "0", "1">>)),
    WithPaging(NoFilter, Absent, Param(<<"0">>)),
    WithPaging(Between(Param(Jan2), Param(Jan1)), Absent, Absent),
    WithPaging(Between(Param(Jan2), Absent), Absent, Absent),
    WithPaging(Between(Absent, Param(Jan1)), Absent, Absent),
    WithPaging(Between(Param(<<"x">>), Absent), Absent, Absent),
    WithPaging(Between(Absent, Param(Month13)), Absent, Absent),
    WithPaging(Between(Param(Feb30), Absent), Absent, Absent) }

FeedStep(maxPosts) ==
  \/ \E req \in FeedRequests :
       /\ Len(posts) < maxPosts \/ Len(posts) = BigSize
       /\ CreatePost(req)
  \/ Tick
  \/ \E q \in ListQueries : ListFind(q)
  \/ ListCount

FeedNext == FeedStep(MaxPosts)

FeedSpec == InitFeed /\ [][FeedNext]_vars

\* The feed with room for three posts of one timestamp.
TieNext == FeedStep(MaxTied)

TieSpec == InitFeed /\ [][TieNext]_vars

(***************************************************************************)
(* Properties of the auth routes.                                          *)
(***************************************************************************)
\* The canonical form of an email: surrounding whitespace removed, lower case.
Canon(e) == toLowerCase(trim(e))

\* C2: a valid signup that does not end with 201 (in particular the loser of
\* a race on one email) is answered 400 'Email already exists'.
C2_LoserGetsConflict ==
  (resp.op = "signup" /\ resp.branch \notin {"validation", "created"})
    => (resp.status = 400 /\ resp.message = "Email already exists")

\* C3: no two user records have the same normalized email, and every user
\* record holds exactly one password hash.
C3_UniqueEmailOneHash ==
  /\ \A i, j \in 1..Len(users) :
       i # j => Canon(users[i].email) # Canon(users[j].email)
  /\ \A i \in 1..Len(users) :
       \E p \in PasswordInputs : users[i].password = bcryptHash(p)

C3_Witness ==
  /\ Len(users) = 2
  /\ resp.op = "signup"
  /\ resp.branch = "error"

Registered(email) == \E i \in 1..Len(users) : Canon(users[i].email) = Canon(email)

FromSignupCheck(r) == r.op = "signup" /\ r.branch \in {"validation", "exists"}

\* C4 as stated: a signup arriving after a user with the same normalized
\* email is registered fails with ConflictError, whatever its password.
C4_ConflictWhateverPassword ==
  (FromSignupCheck(resp) /\ Registered(resp.req.email) /\ notEmpty(trim(resp.req.name)))
    => (resp.branch = "exists" /\ resp.status = 400
        /\ resp.message = "Email already exists")

\* C4 amended: such a signup is never admitted to the save, creates no user
\* and is answered 400; the answer is ConflictError when name and password
\* pass validation and ValidationError otherwise.
C4_ConflictWhenValid ==
  [][/\ \A s \in Slots :
          (inflight'[s] # inflight[s] /\ inflight'[s] # Idle)
            => ~Registered(inflight'[s].body.email)
     /\ (FromSignupCheck(resp') /\ Registered(resp'.req.email))
       => /\ users' = users
          /\ resp'.status = 400
          /\ IF notEmpty(trim(resp'.req.name))
                  /\ isLengthMin(resp'.req.password)
                  /\ hasLetterAndDigit(resp'.req.password)
             THEN resp'.branch = "exists" /\ resp'.message = "Email already exists"
             ELSE resp'.branch = "validation" /\ resp'.message = "Validation failed"]_vars

C4_Witness ==
  /\ resp.op = "signup"
  /\ resp.branch = "exists"
  /\ \E r \in signedUp :
       Canon(r.email) = Canon(resp.req.email) /\ r.password # resp.req.password

Visible(r) == <<r.status, r.message, r.error>>

LoginRejected(r) == r.op = "login" /\ r.branch \in {"nouser", "badpassword"}

\* C5: a login rejected for an unknown email and a login rejected for a wrong
\* password carry the same status code and the same message body.
C5_LoginFailureParity ==
  [][(LoginRejected(resp) /\ LoginRejected(resp')) => Visible(resp) = Visible(resp')]_vars

C5_Witness ==
  /\ resp.op = "login"
  /\ resp.branch = "badpassword"
  /\ Registered(resp.req.email)

\* C6: after a signup answered 201, a login with the same email and password
\* is answered 200 with a token and a user summary carrying that user's id.
C6_LoginAfterSignup ==
  resp.op = "login" =>
    \A r \in signedUp :
      (Canon(resp.req.email) = Canon(r.email) /\ resp.req.password = r.password)
        => /\ resp.status = 200
           /\ jwtVerify(resp.token)
           /\ resp.token.id = r.id
           /\ resp.user.id = r.id

C6_Witness ==
  /\ resp.op = "login"
  /\ resp.status = 200
  /\ resp.user.id = 2
  /\ Len(users) = 2

(***************************************************************************)
(* Properties of the posts routes.                                         *)
(***************************************************************************)
\* A token the server signed that has not expired.
ValidToken(header) ==
  header.present /\ header.token.sig = "server" /\ ~header.token.expired

Mismatch(req) == ValidToken(req.header) /\ req.userId # idString(req.header.token.id)

\* C1 as stated: a create-post request with a valid token and a userId other
\* than the token's user id is answered 403, whatever the rest of the payload.
C1_MismatchAlways403 ==
  (resp.op = "createPost" /\ Mismatch(resp.req)) => resp.status = 403

\* C1 amended: such a request never persists a post; it is answered 403 when
\* its image (if any) is accepted and its fields pass validation, and with
\* the upload or validation error (400 or 500) otherwise.
C1_MismatchNeverPersists ==
  [][(resp'.op = "createPost" /\ Mismatch(resp'.req))
       => /\ posts' = posts
          /\ IF upload(resp'.req.image) \in {"none", "stored"} /\ postValidation(resp'.req)
             THEN resp'.status = 403 /\ resp'.message = "Unauthorized"
             ELSE resp'.status \in {400, 500}]_vars

C1_Witness ==
  /\ resp.op = "createPost"
  /\ Mismatch(resp.req)
  /\ resp.req.image.present
  /\ resp.status = 403

AllowedExtensions ==
  {<<".", "j", "p", "e", "g">>, <<".", "j", "p", "g">>, <<".", "p", "n", "g">>}

AllowedContentTypes == {<<"j", "p", "e", "g">>, <<"j", "p", "g">>, <<"p", "n", "g">>}

BadImage(image) ==
  /\ image.present
  /\ \/ image.size > 5 * 1024 * 1024
     \/ toLowerCase(image.ext) \notin AllowedExtensions
     \/ image.mime \notin AllowedContentTypes

\* C7: an authenticated create-post request whose image is over 5 MiB or has
\* an extension or content type outside {jpeg, jpg, png} is answered 400
\* (UploadError) and creates no post.
C7_BadImageGetsUploadError ==
  (resp.op = "createPost" /\ ValidToken(resp.req.header) /\ BadImage(resp.req.image))
    => (resp.status = 400 /\ resp.branch # "created")

\* C8: a create-post request without a valid token is answered 401, stores
\* no image file and persists no post.
C8_NoTokenNothingRuns ==
  [][(resp'.op = "createPost" /\ ~ValidToken(resp'.req.header))
       => (resp'.status = 401 /\ files' = files /\ posts' = posts)]_vars

C8_Witness ==
  /\ resp.op = "createPost"
  /\ resp.status = 401
  /\ resp.req.header.token.expired
  /\ upload(resp.req.image) = "stored"
  /\ postValidation(resp.req)
  /\ resp.req.userId = idString(resp.req.header.token.id)

Min(a, b) == IF a < b THEN a ELSE b

Max(a, b) == IF a > b THEN a ELSE b

\* The listing r agrees with the store: total counts the matching posts,
\* pages is ceil(total / limit), and the slice holds the posts at positions
\* offset+1 .. offset+n of a newest-first order of the matching posts.
PaginationHolds(r) ==
  LET M == {i \in 1..Len(posts) : matches(posts[i], r.req)}
      offset == (r.page - 1) * r.limit
      n == Len(r.posts)
  IN /\ r.total = Cardinality(M)
     /\ r.pages * r.limit >= r.total
     /\ (r.pages - 1) * r.limit < r.total
     /\ n = Min(r.limit, Max(0, r.total - offset))
     /\ \A k \in 1..n :
          /\ r.posts[k] \in M
          /\ \A l \in 1..n : l # k => r.posts[l] # r.posts[k]
          /\ Cardinality({i \in M : posts[i].uploadTime > posts[r.posts[k]].uploadTime})
               <= offset + k - 1
          /\ Cardinality({i \in M : posts[i].uploadTime >= posts[r.posts[k]].uploadTime})
               >= offset + k

Listed(r) == r.op = "listPosts" /\ r.status = 200

\* C9 as stated: every listing has total, pages and slice as the pagination
\* rule gives them for the matching posts.
C9_PaginationAlways == Listed(resp) => PaginationHolds(resp)

\* C9 amended: the same, for a listing during which no post was created
\* between its find and its count.
C9_PaginationUnchangedStore ==
  (Listed(resp) /\ resp.foundAt = Len(posts)) => PaginationHolds(resp)

C9_Witness ==
  /\ Listed(resp)
  /\ resp.foundAt = Len(posts)
  /\ resp.total = 25
  /\ resp.page = 2
  /\ resp.limit = 10
  /\ Len(resp.posts) = 10
  /\ resp.pages = 3

\* C10: posts with equal upload timestamps are returned in insertion order
\* (in one direction throughout a listing).
C10_TiesInInsertionOrder ==
  Listed(resp) =>
    LET n == Len(resp.posts)
        tied(k) == posts[resp.posts[k]].uploadTime = posts[resp.posts[k + 1]].uploadTime
    IN \/ \A k \in 1..(n - 1) : tied(k) => resp.posts[k] < resp.posts[k + 1]
       \/ \A k \in 1..(n - 1) : tied(k) => resp.posts[k] > resp.posts[k + 1]

(***************************************************************************)
(* Properties of the routing of the auth paths.                            *)
(***************************************************************************)
\* C11: a request to /api/signup or /api/login with the method GET, PUT,
\* PATCH or DELETE is answered 405 (MethodNotAllowed), which is not the 400
\* of a validation failure.
C11_NonPostGets405 ==
  (resp.op = "route" /\ resp.req.method \in {"GET", "PUT", "PATCH", "DELETE"})
    => (resp.status = 405 /\ resp.status # 400)

(***************************************************************************)
(* Properties of the validation of a listing's query.                      *)
(***************************************************************************)
\* A text that names a day of the calendar.
isCalendarDate(s) ==
  /\ isISO8601(s)
  /\ dayOf(s) <= daysInMonth(yearOf(s), monthOf(s))

\* The queries the listing is to accept: page an integer from 1, limit an
\* integer in 1..100, each bound a calendar date, startDate not after endDate.
QueryAcceptable(q) ==
  /\ q.page.present => isIntMin(q.page.value, 1)
  /\ q.limit.present => isIntRange(q.limit.value, 1, 100)
  /\ q.startDate.present => isCalendarDate(q.startDate.value)
  /\ q.endDate.present => isCalendarDate(q.endDate.value)
  /\ (q.startDate.present /\ q.endDate.present) =>
       newDate(q.startDate.value) <= newDate(q.endDate.value)

\* C12: a listing whose page is not an integer from 1, whose limit is not an
\* integer in 1..100, whose startDate or endDate is not a valid date, or whose
\* startDate is after its endDate is answered 400 and never reaches the
\* store; any other listing, one with startDate = endDate or with a single
\* bound included, is answered 200.
C12_InvalidQueryRejected ==
  /\ listing # Idle => QueryAcceptable(listing.req)
  /\ resp.op = "listPosts" =>
       (resp.status = IF QueryAcceptable(resp.req) THEN 200 ELSE 400)

\* The same with the day of a date bound checked against 01..31 only: what
\* the code does.
QueryPasses(q) == searchValidation(q) /\ ~invalidDateRange(q)

C12_Code ==
  /\ listing # Idle => QueryPasses(listing.req)
  /\ resp.op = "listPosts" =>
       (resp.status = IF QueryPasses(resp.req) THEN 200 ELSE 400)

(***************************************************************************)
(* Properties of the stored images.                                        *)
(***************************************************************************)
Referenced(f) == \E i \in 1..Len(posts) : posts[i].imagePath = f

\* The file stored for the request that was answered last.
LastStored == Cardinality(files)

\* C13: every stored post with an image path references a file that is on
\* disk, the file being written before the record.  The converse fails: a
\* request with an accepted image that is answered 400 (validation), 403
\* (another user's id) or 500 (the record's save failed) leaves its file on
\* disk with no post referencing it.
C13_ImageFileBeforeRecord ==
  /\ \A i \in 1..Len(posts) :
       posts[i].imagePath # 0 => posts[i].imagePath \in files
  /\ (/\ resp.op = "createPost"
      /\ resp.branch \in {"validation", "ownership", "save"}
      /\ resp.req.image.present)
       => (LastStored \in files /\ ~Referenced(LastStored))
  /\ (/\ resp.op = "createPost"
      /\ resp.branch = "created"
      /\ resp.req.image.present)
       => posts[Len(posts)].imagePath = LastStored

\* A post with its image on disk, and beside it the image of a request whose
\* save failed, referenced by no post.
C13_Witness ==
  /\ \E i \in 1..Len(posts) : posts[i].imagePath # 0 /\ posts[i].imagePath \in files
  /\ resp.op = "createPost"
  /\ resp.branch = "save"
  /\ resp.req.image.present
  /\ \E f \in files : ~Referenced(f)

====
